---- MODULE Spec2Model ----
(***************************************************************************)
(* tree-flat: a Vec-backed tree flattened in pre-order on three parallel   *)
(* vectors (data, level, parent), its TreeMut builder handles and its four *)
(* iterators (TreeIter, ParentIter, ChildrenIter, SiblingsIter).           *)
(*                                                                         *)
(* Rust indices are zero-based, TLA+ sequences one-based: the element at   *)
(* Rust index i of a vector v is v[i + 1], written At(v, i).               *)
(***************************************************************************)
EXTENDS Integers, Sequences, FiniteSets, TLC

\* Largest number of nodes of a tree built through the builder alone.
MaxLen == 4
\* Largest number of nodes of a tree once push_with_level has been called.
MaxRawLen == 3
\* Largest level handed to push_with_level.
MaxLevel == 1

\* Largest number of nodes of each of two trees that are compared.
MaxEqLen == 2
\* Largest capacity handed to with_capacity.
MaxCapacity == 2

\* The width of usize in bits.
WordBits == 4

\* The payloads T handed to new / push / push_with_level.
Values == {"a", "b"}

VARIABLES
    data,      \* Tree.data: Vec<T>
    level,     \* Tree.level: Vec<usize>
    parent,    \* Tree.parent: Vec<usize>
    handles,   \* the live TreeMut handles, each borrowed from the one before it
    it,        \* the live iterator over the tree, if any
    out,       \* what the calls of next() on `it` returned, in order
    call,      \* the last call of the mutation API: arguments and result
    hist,      \* the values handed to new / push / append / push_with_level, in call
               \* order, less the ones of the nodes removed since
    raw,       \* TRUE once push_with_level has been called by the user
    panicked,  \* TRUE once an index out of bounds has unwound the program
    removed,   \* the number of nodes pop / truncate / clear / drain have removed
    other      \* a second Tree, to compare the first with

vars == <<data, level, parent, handles, it, out, call, hist, raw, panicked,
          removed, other>>

----------------------------------------------------------------------------
\* Option<T>: None is the empty sequence, Some(x) a sequence of one element.
None == <<>>
Some(x) == <<x>>

\* v[i] of a Rust vector.
At(v, i) == v[i + 1]

\* NodeId(NonZeroUsize): the index plus one, for an index below usize::MAX.
from_index(n) == n + 1

\* NodeId::to_index returning the word the NodeId stores.
to_index_no_offset(id) == id

to_index(id) == id - 1

\* Tree::len
len == Len(data)

\* Tree::get_level: index 0 is answered without reading the vector.
get_level(of) == IF to_index(of) = 0 THEN 0 ELSE At(level, to_index(of))

\* Tree::_make_tree_mut
_make_tree_mut(id, p) == [id |-> id, parent |-> p]

\* Tree::_make_node, on an index in range: the id and the data it refers to.
_make_node(id) == [id |-> id, data |-> At(data, to_index(id))]

\* TreeMut::get_parent_level reading the level of the handle's own node.
get_parent_level_of_id(h) == get_level(h.id)

\* TreeMut::get_parent_level
get_parent_level(h) == get_level(h.parent)

\* No iterator borrows the tree.
NoIter == [kind |-> "none"]

\* The NodeIds a caller may hand in: every index in range and one past the end.
NodeIds == {from_index(n) : n \in 0..len}

\* The room left under the bound of the model, which is on the number of
\* nodes ever appended: the ones in the tree and the ones removed.
Room == len + removed < (IF raw THEN MaxRawLen ELSE MaxLen)

----------------------------------------------------------------------------
\* A Tree as a value: the three vectors, and the capacity asked of
\* with_capacity, which the vectors are allocated with and which is no part
\* of their contents.

\* Tree::push_with_level on a tree value.
push_with_level_on(t, d, l, p) ==
    [t EXCEPT !.data = Append(@, d),
              !.level = Append(@, l),
              !.parent = Append(@, to_index(p))]

\* Tree::with_capacity: three empty vectors of that capacity, and the root
\* pushed with level 0 and parent 0.into().
with_capacity(root, capacity) ==
    push_with_level_on([data |-> <<>>, level |-> <<>>, parent |-> <<>>,
                        capacity |-> capacity],
                       root, 0, from_index(0))

\* Tree::new
new(root) == with_capacity(root, 1)

\* Tree::new / Tree::with_capacity: push_with_level(root, 0, 0.into()) on
\* three empty vectors. The capacity is no part of the three vectors' contents.
Init ==
    \E root \in Values :
        /\ data = <<root>>
        /\ level = <<0>>
        /\ parent = <<to_index(from_index(0))>>
        /\ handles = <<>>
        /\ it = NoIter
        /\ out = <<>>
        /\ call = [op |-> "new"]
        /\ hist = <<root>>
        /\ raw = FALSE
        /\ panicked = FALSE
        /\ removed = 0
        /\ other = new(root)

\* Tree::push_with_level with the push on the level vector left out.
push_with_level_no_level(d, l, p) ==
    /\ data' = Append(data, d)
    /\ level' = level
    /\ parent' = Append(parent, to_index(p))

\* Tree::push_with_level with the line it has commented out: the index of the
\* parent less one, 0 staying 0.
push_with_level_parent_less_one(d, l, p) ==
    /\ data' = Append(data, d)
    /\ level' = Append(level, l)
    /\ parent' = Append(parent, IF to_index(p) = 0 THEN 0 ELSE to_index(p) - 1)

\* Tree::push_with_level with the level put in front of the level vector
\* (Vec::insert(0, ..) for Vec::push).
push_with_level_level_in_front(d, l, p) ==
    /\ data' = Append(data, d)
    /\ level' = <<l>> \o level
    /\ parent' = Append(parent, to_index(p))

\* Tree::push_with_level: one push on each vector; the result is the NodeId
\* of the last index.
push_with_level(d, l, p) ==
    /\ data' = Append(data, d)
    /\ level' = Append(level, l)
    /\ parent' = Append(parent, to_index(p))

push_with_level_ret == from_index(Len(data') - 1)

\* TreeMut::append with the child put on its parent's own level.
append_same_level(h, d) == push_with_level(d, get_parent_level(h), h.parent)

\* TreeMut::append recording the handle's own node as the parent, the level
\* still read from the handle's parent field.
append_under_id(h, d) == push_with_level(d, get_parent_level(h) + 1, h.id)

\* TreeMut::append
append(h, d) == push_with_level(d, get_parent_level(h) + 1, h.parent)

\* Tree::tree_root_mut. Taking the tree by &mut ends every earlier borrow.
TreeRootMut ==
    /\ ~panicked
    /\ UNCHANGED <<removed, other>>
    /\ it = NoIter
    /\ handles' = <<_make_tree_mut(from_index(0), from_index(0))>>
    /\ it' = NoIter
    /\ out' = <<>>
    /\ call' = [op |-> "tree_root_mut"]
    /\ UNCHANGED <<data, level, parent, hist, raw, panicked>>

\* Tree::tree_node_mut making the handle push under the node it names.
tree_node_mut_under_id(id) ==
    IF to_index(id) < Len(data)
    THEN Some(_make_tree_mut(id, id))
    ELSE None

\* Tree::tree_node_mut
tree_node_mut(id) ==
    IF to_index(id) < Len(data)
    THEN Some(_make_tree_mut(id, from_index(0)))
    ELSE None

TreeNodeMut(id) ==
    /\ ~panicked
    /\ UNCHANGED <<removed, other>>
    /\ it = NoIter
    /\ handles' = tree_node_mut(id)
    /\ it' = NoIter
    /\ out' = <<>>
    /\ call' = [op |-> "tree_node_mut", id |-> id, ret |-> tree_node_mut(id)]
    /\ UNCHANGED <<data, level, parent, hist, raw, panicked>>

\* TreeMut::push on the k-th live handle. The handles borrowed from it are
\* dead by then (the exclusive borrow); the handle returned borrows from it.
Push(k, d) ==
    /\ ~panicked
    /\ UNCHANGED <<removed, other>>
    /\ it = NoIter
    /\ Room
    /\ k \in 1..Len(handles)
    /\ append(handles[k], d)
    /\ LET id == push_with_level_ret
           ret == _make_tree_mut(id, id)
       IN  /\ handles' = Append(SubSeq(handles, 1, k), ret)
           /\ call' = [op |-> "push", h |-> handles[k], d |-> d, len |-> len, ret |-> ret]
    /\ hist' = Append(hist, d)
    /\ it' = NoIter
    /\ out' = <<>>
    /\ UNCHANGED <<raw, panicked>>

\* TreeMut::append on the k-th live handle: the NodeId, no new handle.
AppendNode(k, d) ==
    /\ ~panicked
    /\ UNCHANGED <<removed, other>>
    /\ it = NoIter
    /\ Room
    /\ k \in 1..Len(handles)
    /\ append(handles[k], d)
    /\ handles' = SubSeq(handles, 1, k)
    /\ call' = [op |-> "append", h |-> handles[k], d |-> d, len |-> len,
                ret |-> push_with_level_ret]
    /\ hist' = Append(hist, d)
    /\ it' = NoIter
    /\ out' = <<>>
    /\ UNCHANGED <<raw, panicked>>

\* Tree::push_with_level called on the tree itself, with any level and parent.
PushWithLevel(d, l, p) ==
    /\ ~panicked
    /\ UNCHANGED <<removed, other>>
    /\ it = NoIter
    /\ len + removed < MaxRawLen
    /\ push_with_level(d, l, p)
    /\ handles' = <<>>
    /\ call' = [op |-> "push_with_level", d |-> d, l |-> l, p |-> p, len |-> len,
                ret |-> push_with_level_ret]
    /\ hist' = Append(hist, d)
    /\ raw' = TRUE
    /\ it' = NoIter
    /\ out' = <<>>
    /\ UNCHANGED panicked

----------------------------------------------------------------------------
\* The iterators borrow the tree by &: no handle is live while one exists, and
\* the tree cannot change before the iterator is dropped.

\* next() is called at most len + 2 times on one iterator.
MoreCalls == Len(out) <= len + 1

\* Tree::iter / Tree::into_iter / IntoIterator for &Tree: pos starts at 0.
Iter ==
    /\ ~panicked
    /\ UNCHANGED <<removed, other>>
    /\ it = NoIter
    /\ it' = [kind |-> "TreeIter", pos |-> 0]
    /\ out' = <<>>
    /\ handles' = <<>>
    /\ call' = [op |-> "iter", after |-> call.op]
    /\ UNCHANGED <<data, level, parent, hist, raw, panicked>>

\* The test of TreeIter::next, one short: the last node is never yielded.
TreeIter_in_range_short(pos) == pos < len

\* The test of TreeIter::next on the position already advanced.
TreeIter_in_range(pos) == pos <= len

\* TreeIter::next
TreeIterNext ==
    /\ ~panicked
    /\ UNCHANGED <<removed, other>>
    /\ it.kind = "TreeIter"
    /\ MoreCalls
    /\ LET id == from_index(it.pos)
           pos == it.pos + 1
       IN  /\ it' = [it EXCEPT !.pos = pos]
           /\ out' = Append(out, IF TreeIter_in_range(pos) THEN Some(_make_node(id)) ELSE None)
    /\ UNCHANGED <<data, level, parent, handles, call, hist, raw, panicked>>

\* Tree::node(id).unwrap().parents()
Parents(id) ==
    /\ ~panicked
    /\ UNCHANGED <<removed, other>>
    /\ it = NoIter
    /\ to_index(id) < Len(data)
    /\ it' = [kind |-> "ParentIter", parent |-> At(parent, to_index(id)), node |-> id]
    /\ out' = <<>>
    /\ handles' = <<>>
    /\ call' = [op |-> "parents", id |-> id]
    /\ UNCHANGED <<data, level, parent, hist, raw, panicked>>

\* The test of ParentIter::next, stopping one node early: the walk ends when
\* the next parent is the root, which is never yielded.
ParentIter_more_before_root(node) == to_index(node) > 0 /\ it.parent > 0

\* The test of ParentIter::next on the node last yielded.
ParentIter_more(node) == to_index(node) > 0

\* ParentIter::next. tree.parent[self.parent] and data[self.node] are indexed
\* unchecked by the code: out of range, the program panics.
ParentIterNext ==
    /\ ~panicked
    /\ UNCHANGED <<removed, other>>
    /\ it.kind = "ParentIter"
    /\ MoreCalls
    /\ IF ParentIter_more(it.node)
       THEN IF it.parent < Len(parent) /\ it.parent < Len(data)
            THEN LET node == from_index(it.parent)
                 IN  /\ it' = [it EXCEPT !.node = node,
                                         !.parent = At(parent, it.parent)]
                     /\ out' = Append(out, Some(_make_node(node)))
                     /\ UNCHANGED panicked
            ELSE /\ panicked' = TRUE
                 /\ UNCHANGED <<it, out>>
       ELSE /\ out' = Append(out, None)
            /\ UNCHANGED <<it, panicked>>
    /\ UNCHANGED <<data, level, parent, handles, call, hist, raw>>

\* Tree::node(id).unwrap().children(): ChildrenIter::new. range is the slice
\* tree.parent[idx + 1..], of which only the length is ever read.
Children(id) ==
    /\ ~panicked
    /\ UNCHANGED <<removed, other>>
    /\ it = NoIter
    /\ to_index(id) < Len(data)
    /\ it' = [kind |-> "ChildrenIter", pos |-> 1, parent |-> id,
              range |-> Len(parent) - (to_index(id) + 1)]
    /\ out' = <<>>
    /\ handles' = <<>>
    /\ call' = [op |-> "children", id |-> id]
    /\ UNCHANGED <<data, level, parent, hist, raw, panicked>>

\* The test of ChildrenIter::next with >= for >: a node on the parent's own
\* level counts as its child.
ChildrenIter_is_child_or_equal(level_child, level_parent) ==
    level_child >= level_parent

\* The test of ChildrenIter::next on the two levels it has read.
ChildrenIter_is_child(level_child, level_parent) == level_child > level_parent

\* ChildrenIter::next
ChildrenIterNext ==
    /\ ~panicked
    /\ UNCHANGED <<removed, other>>
    /\ it.kind = "ChildrenIter"
    /\ MoreCalls
    /\ IF it.pos <= it.range
       THEN LET idx == to_index(it.parent)
                level_parent == At(level, idx)
                node == from_index(it.pos + idx)
                level_child == At(level, to_index(node))
            IN  /\ it' = [it EXCEPT !.pos = it.pos + 1]
                /\ out' = Append(out, IF ChildrenIter_is_child(level_child, level_parent)
                                      THEN Some(_make_node(node))
                                      ELSE None)
       ELSE /\ out' = Append(out, None)
            /\ UNCHANGED it
    /\ UNCHANGED <<data, level, parent, handles, call, hist, raw, panicked>>

\* Tree::node(id).unwrap().siblings()
Siblings(id) ==
    /\ ~panicked
    /\ UNCHANGED <<removed, other>>
    /\ it = NoIter
    /\ to_index(id) < Len(data)
    /\ it' = [kind |-> "SiblingsIter", pos |-> 0, level |-> At(level, to_index(id)),
              node |-> id]
    /\ out' = <<>>
    /\ handles' = <<>>
    /\ call' = [op |-> "siblings", id |-> id]
    /\ UNCHANGED <<data, level, parent, hist, raw, panicked>>

\* The find_map of SiblingsIter::next without the test that leaves out the
\* node itself.
find_map_with_self(start) ==
    {idx \in start..(Len(level) - 1) : At(level, idx) = it.level}

\* The find_map of SiblingsIter::next over the whole of level, whatever start is.
find_map_from_zero(start) ==
    {idx \in 0..(Len(level) - 1) :
        At(level, idx) = it.level /\ to_index(it.node) # idx}

\* The find_map of SiblingsIter::next over level[start..]: the indices where
\* the closure answers Some, of which find_map takes the first.
find_map(start) ==
    {idx \in start..(Len(level) - 1) :
        At(level, idx) = it.level /\ to_index(it.node) # idx}

Min(S) == CHOOSE x \in S : \A y \in S : x <= y

\* SiblingsIter::next
SiblingsIterNext ==
    /\ ~panicked
    /\ UNCHANGED <<removed, other>>
    /\ it.kind = "SiblingsIter"
    /\ MoreCalls
    /\ IF it.pos <= len /\ find_map(it.pos) # {}
       THEN LET pos == Min(find_map(it.pos))
            IN  /\ it' = [it EXCEPT !.pos = pos + 1]
                /\ out' = Append(out, Some(_make_node(from_index(pos))))
       ELSE /\ out' = Append(out, None)
            /\ UNCHANGED it
    /\ UNCHANGED <<data, level, parent, handles, call, hist, raw, panicked>>

\* The iterator goes out of scope: its borrow of the tree ends.
DropIter ==
    /\ ~panicked
    /\ UNCHANGED <<removed, other>>
    /\ it # NoIter
    /\ it' = NoIter
    /\ out' = <<>>
    /\ call' = [op |-> IF it.kind = "TreeIter" THEN "drop TreeIter" ELSE "drop"]
    /\ UNCHANGED <<data, level, parent, handles, hist, raw, panicked>>

----------------------------------------------------------------------------
\* The builder API and the iterators.
Next ==
    \/ TreeRootMut
    \/ \E id \in NodeIds : TreeNodeMut(id)
    \/ \E k \in 1..Len(handles), d \in Values : Push(k, d)
    \/ \E k \in 1..Len(handles), d \in Values : AppendNode(k, d)
    \/ Iter
    \/ TreeIterNext
    \/ \E id \in NodeIds : Parents(id)
    \/ ParentIterNext
    \/ \E id \in NodeIds : Children(id)
    \/ ChildrenIterNext
    \/ \E id \in NodeIds : Siblings(id)
    \/ SiblingsIterNext
    \/ DropIter

Spec == Init /\ [][Next]_vars

\* The builder API, the iterators and push_with_level on the tree itself.
NextRaw ==
    \/ Next
    \/ \E d \in Values, l \in 0..MaxLevel, p \in NodeIds :
           PushWithLevel(d, l, p)

SpecRaw == Init /\ [][NextRaw]_vars

----------------------------------------------------------------------------
\* The lookups and the operations that shorten the tree. Each takes the tree
\* by & or &mut: no handle survives the call.

\* The test of Tree::node and Tree::node_mut, one too far: the index len()
\* counts as found.
node_found_through_len(id) == to_index(id) <= Len(data)

\* The test of Tree::node, Tree::node_mut: is the index of id in range?
node_found(id) == to_index(id) < Len(data)

\* v[i] is bounds-checked by Rust: out of range, the program panics.
InBounds(v, i) == i < Len(v)

\* What a lookup leaves alone.
LookupFrame ==
    /\ handles' = <<>>
    /\ UNCHANGED <<data, level, parent, it, out, hist, raw>>

\* Tree::node: Some(_make_node(id)) when the index is in range, else None.
\* _make_node indexes data, which panics out of range.
Node(id) ==
    /\ ~panicked
    /\ UNCHANGED <<removed, other>>
    /\ it = NoIter
    /\ IF node_found(id)
       THEN IF InBounds(data, to_index(id))
            THEN /\ call' = [op |-> "node", id |-> id, ret |-> Some(_make_node(id))]
                 /\ UNCHANGED panicked
            ELSE /\ call' = [op |-> "node", id |-> id, ret |-> None]
                 /\ panicked' = TRUE
       ELSE /\ call' = [op |-> "node", id |-> id, ret |-> None]
            /\ UNCHANGED panicked
    /\ LookupFrame

\* Tree::node_mut: the same test, _make_node_mut for _make_node.
NodeMut(id) ==
    /\ ~panicked
    /\ UNCHANGED <<removed, other>>
    /\ it = NoIter
    /\ IF node_found(id)
       THEN IF InBounds(data, to_index(id))
            THEN /\ call' = [op |-> "node_mut", id |-> id, ret |-> Some(_make_node(id))]
                 /\ UNCHANGED panicked
            ELSE /\ call' = [op |-> "node_mut", id |-> id, ret |-> None]
                 /\ panicked' = TRUE
       ELSE /\ call' = [op |-> "node_mut", id |-> id, ret |-> None]
            /\ UNCHANGED panicked
    /\ LookupFrame

\* Tree::root: _make_node(0.into()), with no test before data[0] is indexed.
Root ==
    /\ ~panicked
    /\ UNCHANGED <<removed, other>>
    /\ it = NoIter
    /\ IF InBounds(data, to_index(from_index(0)))
       THEN /\ call' = [op |-> "root", ret |-> Some(_make_node(from_index(0)))]
            /\ UNCHANGED panicked
       ELSE /\ call' = [op |-> "root", ret |-> None]
            /\ panicked' = TRUE
    /\ LookupFrame

\* Tree::root_mut: _make_node_mut(0.into()), with no test either.
RootMut ==
    /\ ~panicked
    /\ UNCHANGED <<removed, other>>
    /\ it = NoIter
    /\ IF InBounds(data, to_index(from_index(0)))
       THEN /\ call' = [op |-> "root_mut", ret |-> Some(_make_node(from_index(0)))]
            /\ UNCHANGED panicked
       ELSE /\ call' = [op |-> "root_mut", ret |-> None]
            /\ panicked' = TRUE
    /\ LookupFrame

\* The first n elements of v.
Take(v, n) == SubSeq(v, 1, n)

\* The last element of a vector that has one.
Last(v) == v[Len(v)]

\* What an operation on the three vectors leaves alone.
RemovalFrame ==
    /\ handles' = <<>>
    /\ UNCHANGED <<it, out, raw, panicked>>

\* Tree::pop that takes the last value and leaves level and parent as they are.
pop_data_only ==
    /\ data' = Take(data, Len(data) - 1)
    /\ UNCHANGED <<level, parent>>

\* Tree::pop on a tree that has a node: Vec::pop on each of the vectors.
pop ==
    /\ data' = Take(data, Len(data) - 1)
    /\ level' = Take(level, Len(level) - 1)
    /\ parent' = Take(parent, Len(parent) - 1)

\* Tree::pop: the triple of the last node, the parent as a NodeId; None on
\* the empty tree. level.pop() and parent.pop() are unwrapped.
Pop ==
    /\ ~panicked
    /\ UNCHANGED other
    /\ it = NoIter
    /\ IF Len(data) > 0
       THEN IF Len(level) > 0 /\ Len(parent) > 0
            THEN /\ pop
                 /\ hist' = Take(hist, Len(hist) - 1)
                 /\ removed' = removed + 1
                 /\ call' = [op |-> "pop",
                             ret |-> Some(<<Last(data), Last(level),
                                            from_index(Last(parent))>>)]
                 /\ RemovalFrame
            ELSE /\ panicked' = TRUE
                 /\ call' = [op |-> "pop", ret |-> None]
                 /\ handles' = <<>>
                 /\ UNCHANGED <<data, level, parent, it, out, hist, raw, removed>>
       ELSE /\ call' = [op |-> "pop", ret |-> None]
            /\ UNCHANGED <<data, level, parent, hist, removed>>
            /\ RemovalFrame

\* Vec::truncate keeping one element more than it is asked to.
truncate_one_more(v, n) == IF n < Len(v) THEN Take(v, n + 1) ELSE v

\* Vec::truncate: keeps the first n elements, and does nothing when n is not
\* less than the length.
truncate(v, n) == IF n < Len(v) THEN Take(v, n) ELSE v

\* Tree::truncate: Vec::truncate on each vector.
Truncate(n) ==
    /\ ~panicked
    /\ UNCHANGED other
    /\ it = NoIter
    /\ data' = truncate(data, n)
    /\ level' = truncate(level, n)
    /\ parent' = truncate(parent, n)
    /\ hist' = IF n < Len(hist) THEN Take(hist, n) ELSE hist
    /\ removed' = removed + (Len(data) - Len(data'))
    /\ call' = [op |-> "truncate", n |-> n]
    /\ RemovalFrame

\* Tree::clear: Vec::clear on each vector.
Clear ==
    /\ ~panicked
    /\ UNCHANGED other
    /\ it = NoIter
    /\ data' = <<>>
    /\ level' = <<>>
    /\ parent' = <<>>
    /\ hist' = <<>>
    /\ removed' = removed + Len(data)
    /\ call' = [op |-> "clear"]
    /\ RemovalFrame

\* v without the elements at the indices start..end.
Without(v, start, end) == Take(v, start) \o SubSeq(v, end + 1, Len(v))

\* Vec::drain(start..end) once its Drain is dropped, after any number of
\* calls of next: the elements of the range not yielded are dropped with it
\* and the tail is moved down.
vec_drain(v, start, end) == Without(v, start, end)

\* Tree::drain with the drain of the value vector alone.
drain_data_only(start, end) ==
    /\ data' = vec_drain(data, start, end)
    /\ UNCHANGED <<level, parent>>

\* Tree::drain: Vec::drain with the same range on each vector, the three
\* Drains owned by the iterator returned and dropped with it.
drain(start, end) ==
    /\ data' = vec_drain(data, start, end)
    /\ level' = vec_drain(level, start, end)
    /\ parent' = vec_drain(parent, start, end)

\* Tree::drain(start..end), next called on the iterator until it has yielded
\* `taken` triples (none, some or all of the range), and the iterator
\* dropped. Each call of next takes one element of each Drain. Vec::drain
\* panics when start > end or end > len, which data.drain does before any
\* vector has changed.
Drain(start, end, taken) ==
    /\ ~panicked
    /\ UNCHANGED other
    /\ it = NoIter
    /\ IF start <= end /\ end <= Len(data)
       THEN /\ taken <= end - start
            /\ drain(start, end)
            /\ hist' = Without(hist, start, end)
            /\ removed' = removed + (end - start)
            /\ call' = [op |-> "drain", n |-> end - start, taken |-> taken]
            /\ RemovalFrame
       ELSE /\ taken = 0
            /\ panicked' = TRUE
            /\ call' = [op |-> "drain", n |-> end - start, taken |-> taken]
            /\ handles' = <<>>
            /\ UNCHANGED <<data, level, parent, it, out, hist, raw, removed>>

\* The ranges handed to drain: every range of the tree, and the ranges that
\* end one before their start or one past the end of the tree.
DrainRanges ==
    {r \in (0..(len + 1)) \X (0..(len + 1)) : r[1] <= r[2] + 1 /\ r[1] <= len}

\* How many triples the caller takes from a drain of n nodes before dropping
\* it: none, one, or all of them.
DrainTaken(n) == {0} \cup ({1, n} \cap 0..n)

\* The builder from the root handle, push_with_level with the least and the
\* greatest level, and the removals.
NextMut ==
    \/ TreeRootMut
    \/ \E k \in 1..Len(handles), d \in Values : Push(k, d)
    \/ \E d \in Values, l \in {0, MaxLevel}, p \in NodeIds :
           PushWithLevel(d, l, p)
    \/ Pop
    \/ \E n \in 0..(len + 1) : Truncate(n)
    \/ Clear
    \/ \E r \in DrainRanges : \E taken \in DrainTaken(r[2] - r[1]) :
           Drain(r[1], r[2], taken)

SpecMut == Init /\ [][NextMut]_vars

\* A tree built through the builder, one drain of it, and the walks up the
\* parents on what the drain has left.
NextDrain ==
    \/ removed = 0 /\ TreeRootMut
    \/ \E id \in NodeIds : removed = 0 /\ TreeNodeMut(id)
    \/ \E k \in 1..Len(handles), d \in Values : removed = 0 /\ Push(k, d)
    \/ \E r \in DrainRanges : \E taken \in DrainTaken(r[2] - r[1]) :
           removed = 0 /\ Drain(r[1], r[2], taken)
    \/ \E id \in NodeIds : Parents(id)
    \/ ParentIterNext
    \/ DropIter

SpecDrain == Init /\ [][NextDrain]_vars

\* The builder, push_with_level, pop and clear, and the lookups on the trees
\* they leave.
NextLookup ==
    \/ TreeRootMut
    \/ \E id \in NodeIds : TreeNodeMut(id)
    \/ \E k \in 1..Len(handles), d \in Values : Push(k, d)
    \/ \E d \in Values, l \in 0..MaxLevel, p \in NodeIds :
           PushWithLevel(d, l, p)
    \/ Pop
    \/ Clear
    \/ \E id \in NodeIds : Node(id)
    \/ \E id \in NodeIds : NodeMut(id)
    \/ Root
    \/ RootMut

SpecLookup == Init /\ [][NextLookup]_vars

----------------------------------------------------------------------------
\* The NodeIds of any tree whatever: the indices in range, the one past the
\* end and the two after it.
AnyNodeIds == {from_index(n) : n \in 0..(len + 2)}

\* The builder and push_with_level with any NodeId for the parent.
NextPush ==
    \/ TreeRootMut
    \/ \E id \in NodeIds : TreeNodeMut(id)
    \/ \E k \in 1..Len(handles), d \in Values : Push(k, d)
    \/ \E k \in 1..Len(handles), d \in Values : AppendNode(k, d)
    \/ \E d \in Values, l \in 0..MaxLevel, p \in AnyNodeIds :
           PushWithLevel(d, l, p)

SpecPush == Init /\ [][NextPush]_vars

\* The builder, push_with_level with any NodeId for the parent, and the four
\* iterators on the trees they make.
NextAny ==
    \/ Next
    \/ \E d \in Values, l \in 0..MaxLevel, p \in AnyNodeIds :
           PushWithLevel(d, l, p)

SpecAny == Init /\ [][NextAny]_vars

----------------------------------------------------------------------------
\* NodeId on machine words: usize holds 0..usize_MAX.
usize_MAX == 2^WordBits - 1

\* a + b where overflow is not checked.
wrapping_add(a, b) == (a + b) % (usize_MAX + 1)

\* NonZeroUsize::new
NonZeroUsize_new(x) == IF x = 0 THEN None ELSE Some(x)

\* NodeId::from_index(n), From<usize> for NodeId: NonZeroUsize::new(n + 1)
\* unwrapped. Where n + 1 overflows, a build with overflow checks panics at
\* the addition, and a build without them at the unwrap of new(0).
FromIndex(n) ==
    /\ ~panicked
    /\ UNCHANGED <<removed, other>>
    /\ \E overflow_checks \in BOOLEAN :
           LET id == NonZeroUsize_new(wrapping_add(n, 1))
           IN  IF (overflow_checks /\ n + 1 > usize_MAX) \/ id = None
               THEN /\ call' = [op |-> "from_index", n |-> n, ret |-> None]
                    /\ panicked' = TRUE
               ELSE /\ call' = [op |-> "from_index", n |-> n, ret |-> id]
                    /\ UNCHANGED panicked
    /\ UNCHANGED <<data, level, parent, handles, it, out, hist, raw>>

\* NodeId::to_index(id), From<NodeId> for usize
ToIndex(id) ==
    /\ ~panicked
    /\ UNCHANGED <<removed, other>>
    /\ call' = [op |-> "to_index", id |-> id, ret |-> to_index(id)]
    /\ UNCHANGED <<data, level, parent, handles, it, out, hist, raw, panicked>>

\* #[derive(PartialEq, PartialOrd)] on NodeId: == and < on the words stored.
NodeId_eq(x, y) == x = y
NodeId_lt(x, y) == x < y

\* from_index(a) == from_index(b) and from_index(a) < from_index(b)
Compare(a, b) ==
    /\ ~panicked
    /\ UNCHANGED <<removed, other>>
    /\ call' = [op |-> "cmp", a |-> a, b |-> b,
                eq |-> NodeId_eq(from_index(a), from_index(b)),
                lt |-> NodeId_lt(from_index(a), from_index(b))]
    /\ UNCHANGED <<data, level, parent, handles, it, out, hist, raw, panicked>>

\* The conversions and comparisons of NodeId, over every word.
NextId ==
    \/ \E n \in 0..usize_MAX : FromIndex(n)
    \/ \E id \in 1..usize_MAX : ToIndex(id)
    \/ \E a \in 0..(usize_MAX - 1), b \in 0..(usize_MAX - 1) : Compare(a, b)

SpecId == Init /\ [][NextId]_vars

----------------------------------------------------------------------------
\* Two trees, compared with ==: the first built through the builder, the
\* second made by with_capacity and built with push_with_level.

\* The first tree as a value.
this == [data |-> data, level |-> level, parent |-> parent]

\* Vec<T> == Vec<T>: the same length and the same element at every index.
vec_eq(a, b) == Len(a) = Len(b) /\ \A i \in 1..Len(a) : a[i] = b[i]

\* A PartialEq for Tree that compares the values alone.
tree_eq_data_only(a, b) == vec_eq(a.data, b.data)

\* #[derive(PartialEq)] on Tree: == on each field, in the order of the fields.
tree_eq(a, b) ==
    /\ vec_eq(a.data, b.data)
    /\ vec_eq(a.level, b.level)
    /\ vec_eq(a.parent, b.parent)

\* The first tree is Tree::new(root), the second with_capacity(r, capacity).
InitEq ==
    \E root \in Values, r \in Values, capacity \in 0..MaxCapacity :
        /\ data = new(root).data
        /\ level = new(root).level
        /\ parent = new(root).parent
        /\ handles = <<>>
        /\ it = NoIter
        /\ out = <<>>
        /\ call = [op |-> "new"]
        /\ hist = <<root>>
        /\ raw = FALSE
        /\ panicked = FALSE
        /\ removed = 0
        /\ other = with_capacity(r, capacity)

\* push_with_level on the second tree, with a NodeId of that tree or the one
\* past its end.
OtherPushWithLevel(d, l, p) ==
    /\ ~panicked
    /\ Len(other.data) < MaxEqLen
    /\ to_index(p) \in 0..Len(other.data)
    /\ other' = push_with_level_on(other, d, l, p)
    /\ UNCHANGED <<data, level, parent, handles, it, out, call, hist, raw,
                   panicked, removed>>

\* Chained pushes from the root handle of the first tree, push_with_level on
\* the second.
NextEq ==
    \/ TreeRootMut
    \/ \E k \in 1..Len(handles), d \in Values : len < MaxEqLen /\ Push(k, d)
    \/ \E d \in Values, l \in 0..MaxLevel, n \in 0..MaxEqLen :
           OtherPushWithLevel(d, l, from_index(n))

SpecEq == InitEq /\ [][NextEq]_vars

----------------------------------------------------------------------------
\* What the claims speak of, read off the three vectors.

\* The indices of the nodes.
Nodes == 0..(len - 1)

\* The calls that add a node.
PushOps == {"push", "append", "push_with_level"}

\* The nodes met following the parent links from node i, within n steps.
RECURSIVE AncestorsWithin(_, _)
AncestorsWithin(i, n) ==
    IF n = 0 \/ i = 0 \/ At(parent, i) \notin Nodes
    THEN {}
    ELSE {At(parent, i)} \cup AncestorsWithin(At(parent, i), n - 1)

Ancestors(i) == AncestorsWithin(i, len)

\* The nodes whose parent chain passes through p.
Descendants(p) == {i \in Nodes : i # p /\ p \in Ancestors(i)}

\* The first index after p whose level is not greater than p's, or len.
RunEnd(p) ==
    Min({q \in (p + 1)..(len - 1) : At(level, q) <= At(level, p)} \cup {len})

\* The results of next() so far that came before the first None.
RECURSIVE BeforeNone(_)
BeforeNone(s) ==
    IF s = <<>> \/ Head(s) = None THEN <<>> ELSE <<Head(s)[1]>> \o BeforeNone(Tail(s))

Yielded == BeforeNone(out)

\* next() has returned None at least once.
ReturnedNone == \E k \in 1..Len(out) : out[k] = None

\* C1: push(v) on any builder handle (the root handle, a handle from
\* tree_node_mut(id), a handle returned by a push) appends exactly one node,
\* with value v, with the index of the node the handle designates as its parent
\* and that node's level + 1 as its level; the handle returned designates the
\* new node, whose index is the length before the push.
C1_PushUnderHandle ==
    call.op = "push" =>
        LET n == call.len
            h == to_index(call.h.id)
        IN  /\ Len(data) = n + 1 /\ Len(level) = n + 1 /\ Len(parent) = n + 1
            /\ At(data, n) = call.d
            /\ At(parent, n) = h
            /\ At(level, n) = At(level, h) + 1
            /\ to_index(call.ret.id) = n

\* C2: every push (builder push or append, push_with_level) makes len() one
\* more than before the call, and the three vectors have one length after
\* every call: the length is the number of values handed in so far.
C2_AppendOnlyGrowth ==
    /\ Len(data) = Len(level)
    /\ Len(level) = Len(parent)
    /\ Len(data) = Len(hist)
    /\ call.op \in PushOps => len = call.len + 1

C2_Witness ==
    /\ call.op = "push_with_level"
    /\ len = 3
    /\ \E k \in 1..Len(hist) : hist[k] # hist[1]

\* C3: on a tree built through the builder, a fresh pre-order iterator yields
\* exactly len() nodes, with the ids 0, 1, ..., len()-1 in that order and the
\* values handed to new and push in the order of the calls, and None after
\* them; so does a second fresh iterator, made after the first was dropped.
C3_PreOrderIdentity ==
    it.kind = "TreeIter" =>
        \A k \in 1..Len(out) :
            out[k] = IF k <= len
                     THEN Some([id |-> from_index(k - 1), data |-> hist[k]])
                     ELSE None

C3_Witness ==
    /\ it.kind = "TreeIter"
    /\ call.after = "drop TreeIter"
    /\ len = 4
    /\ Len(out) = len + 1
    /\ hist[2] # hist[3]

Ids(s) == [k \in 1..Len(s) |-> to_index(s[k].id)]

IsPrefix(a, b) == Len(a) <= Len(b) /\ \A k \in 1..Len(a) : a[k] = b[k]

\* The nodes of the indices a..b, in increasing order.
NodeRange(a, b) == [k \in 1..(b - a + 1) |-> _make_node(from_index(a + k - 1))]

\* The nodes of a set of indices, in increasing order.
InOrder(S) ==
    [k \in 1..Cardinality(S) |->
        _make_node(from_index(CHOOSE x \in S : Cardinality({y \in S : y < x}) = k - 1))]

\* No node records p as its parent.
IsLeaf(p) == ~\E i \in Nodes : i # p /\ At(parent, i) = p

\* Once None, always None, in the results so far.
ExhaustionPermanent ==
    \A i \in 1..Len(out) : \A j \in i..Len(out) : out[i] = None => out[j] = None

\* What children() of p yields before its first None: the nodes p+1 .. q-1,
\* q the first index after p with level[q] <= level[p], or len().
C5_Run ==
    LET p == to_index(it.parent)
    IN  /\ IsPrefix(Yielded, NodeRange(p + 1, RunEnd(p) - 1))
        /\ ReturnedNone => Yielded = NodeRange(p + 1, RunEnd(p) - 1)
        /\ (ReturnedNone /\ p = len - 1) => Yielded = <<>>

\* ... which is nothing for a leaf and every other node for the root.
C5_LeafAndRoot ==
    LET p == to_index(it.parent)
    IN  /\ (ReturnedNone /\ IsLeaf(p)) => Yielded = <<>>
        /\ (ReturnedNone /\ p = 0) => Yielded = NodeRange(1, len - 1)

RECURSIVE ParentChain(_, _)
ParentChain(i, k) ==
    IF k = 0 \/ i = 0 \/ At(parent, i) \notin Nodes
    THEN <<>>
    ELSE <<_make_node(from_index(At(parent, i)))>> \o ParentChain(At(parent, i), k - 1)

\* What parents() of n yields is parent[n], parent[parent[n]], ... in that
\* order; nothing follows the node at index 0, and the root has no ancestors.
C6_Chain ==
    LET n == to_index(call.id)
    IN  /\ Yielded = ParentChain(n, Len(Yielded))
        /\ ReturnedNone => Yielded = ParentChain(n, len)
        /\ \A k \in 1..Len(out) :
               (out[k] # None /\ to_index(out[k][1].id) = 0) =>
                   \A j \in (k + 1)..Len(out) : out[j] = None
        /\ n = 0 => \A k \in 1..Len(out) : out[k] = None

\* ... it never yields n itself, and the node at index 0 is the last it yields.
C6_EndsAtRoot ==
    LET n == to_index(call.id)
    IN  /\ \A k \in 1..Len(out) : out[k] # None => to_index(out[k][1].id) # n
        /\ (ReturnedNone /\ n # 0) =>
               /\ Yielded # <<>>
               /\ to_index(Yielded[Len(Yielded)].id) = 0

\* C6 (as stated): for every node n, parents() of n yields exactly parent[n],
\* parent[parent[n]], ... in that order, never n itself, and stops after
\* yielding the node at index 0, the last ancestor of every node but the root;
\* for the root it yields nothing.
C6_ParentsChainAnyTree ==
    it.kind = "ParentIter" => C6_Chain /\ C6_EndsAtRoot

\* C6 (amended): the same, for every node n of a tree built through the
\* builder alone.
C6_ParentsChain ==
    (it.kind = "ParentIter" /\ ~raw) => C6_Chain /\ C6_EndsAtRoot

C6_Witness ==
    /\ it.kind = "ParentIter"
    /\ ~raw
    /\ to_index(call.id) = 3
    /\ ReturnedNone
    /\ Ids(Yielded) = <<2, 1, 0>>

\* C7: on a tree built through the builder, the ancestor walk from a node n
\* other than the root ends within level[n] + 1 calls: the first node yielded
\* has level level[n] - 1, each later one a level one less and a smaller index
\* than the one before, the last one is index 0, and level[n] nodes are
\* yielded in all.
C7_AncestorChainTermination ==
    (it.kind = "ParentIter" /\ to_index(call.id) # 0) =>
        LET n == to_index(call.id)
            y == Ids(Yielded)
        IN  /\ Len(y) <= At(level, n)
            /\ \A k \in 1..Len(y) :
                   /\ At(level, y[k]) = At(level, n) - k
                   /\ y[k] < (IF k = 1 THEN n ELSE y[k - 1])
            /\ Len(y) = At(level, n) =>
                   /\ y[Len(y)] = 0
                   /\ to_index(it.node) = 0
            /\ Len(out) > At(level, n) => ReturnedNone
            /\ ReturnedNone => Len(y) = At(level, n)

C7_Witness ==
    /\ it.kind = "ParentIter"
    /\ level = <<0, 1, 1, 2>>
    /\ to_index(call.id) = 3
    /\ out = <<Some(_make_node(from_index(2))), Some(_make_node(from_index(0))), None>>

\* The nodes siblings() of n has to yield: every other index on n's level.
SameLevel(n) == {i \in Nodes : i # n /\ At(level, i) = At(level, n)}

\* C8: siblings() of a node n yields, in increasing index order, every index
\* other than n whose level is level[n], whatever its parent, and nothing
\* else; for the root of a tree built through the builder it yields nothing.
C8_SiblingsSameLevel ==
    it.kind = "SiblingsIter" =>
        LET n == to_index(it.node)
        IN  /\ IsPrefix(Yielded, InOrder(SameLevel(n)))
            /\ ReturnedNone => Yielded = InOrder(SameLevel(n))
            /\ (~raw /\ n = 0) => \A k \in 1..Len(out) : out[k] = None

C8_Witness ==
    /\ it.kind = "SiblingsIter"
    /\ level = <<0, 1, 1>>
    /\ parent = <<0, 0, 1>>
    /\ to_index(it.node) = 2
    /\ ReturnedNone
    /\ Ids(Yielded) = <<1>>

\* C9: once next() on children() of a node has returned None, every later
\* call of next() on that iterator returns None.
C9_ChildrenExhaustionPermanent ==
    it.kind = "ChildrenIter" => ExhaustionPermanent

\* The indices yielded grow from each to the next.
Increasing(y) == \A k \in 2..Len(y) : y[k - 1] < y[k]

\* The indices yielded shrink from each to the next.
Decreasing(y) == \A k \in 2..Len(y) : y[k - 1] > y[k]

\* C10: the pre-order, ancestor and same-level iterators only advance: the
\* indices yielded are strictly increasing for pre-order and same-level, and
\* strictly decreasing for the ancestors on a tree built through the builder;
\* once next() has returned None, every later call returns None.
C10_MonotoneAndFused ==
    /\ it.kind \in {"TreeIter", "ParentIter", "SiblingsIter"} =>
           ExhaustionPermanent
    /\ it.kind \in {"TreeIter", "SiblingsIter"} => Increasing(Ids(Yielded))
    /\ (it.kind = "ParentIter" /\ ~raw) => Decreasing(Ids(Yielded))

C10_Witness ==
    /\ it.kind = "SiblingsIter"
    /\ level = <<0, 1, 1, 1>>
    /\ Ids(Yielded) = <<1, 3>>
    /\ Len(out) = 4

\* C11: node(id), node_mut(id) and tree_node_mut(id) return None exactly when
\* the index of id is not less than len(), and never fault; when the index is
\* in range they return a view that carries the same id, and node and node_mut
\* the value stored at that index.
C11_LookupInRange ==
    call.op \in {"node", "node_mut", "tree_node_mut"} =>
        /\ ~panicked
        /\ (call.ret = None) <=> (to_index(call.id) >= len)
        /\ call.ret # None =>
               /\ call.ret[1].id = call.id
               /\ call.op # "tree_node_mut" =>
                      call.ret[1].data = At(data, to_index(call.id))

C11_Witness ==
    /\ call.op = "node_mut"
    /\ removed > 0
    /\ len = 2
    /\ call.ret = Some([id |-> from_index(1), data |-> At(data, 1)])

\* Tree::is_empty
is_empty == Len(data) = 0

\* C12: a constructed tree always holds at least a root node: in every state
\* reached from new / with_capacity by public operations (push,
\* push_with_level, pop, truncate, drain, clear), len() >= 1, is_empty() is
\* false, and index 0 holds the root, with level 0 and parent index 0.
C12_AlwaysHasRoot ==
    /\ len >= 1
    /\ ~is_empty
    /\ At(level, 0) = 0
    /\ At(parent, 0) = 0

\* The calls that remove nodes.
RemovalOps == {"pop", "truncate", "clear", "drain"}

\* Every node of before the step is still there after it, on the same index,
\* with the same level and parent.
NodesKept ==
    \A i \in 1..Len(level) :
        /\ i <= Len(level') /\ i <= Len(parent')
        /\ level'[i] = level[i]
        /\ parent'[i] = parent[i]

C14_RootAlwaysSucceeds ==
    call.op \in {"root", "root_mut", "tree_root_mut"} =>
        /\ ~panicked
        /\ call.op \in {"root", "root_mut"} =>
               call.ret = Some([id |-> from_index(0), data |-> At(data, 0)])
        /\ call.op = "tree_root_mut" =>
               handles = <<_make_tree_mut(from_index(0), from_index(0))>>

\* The (value, level, parent) triples of a tree, in index order.
Triples(t) == [i \in 1..Len(t.data) |-> <<t.data[i], t.level[i], t.parent[i]>>]

\* C15: two trees compare equal exactly when their value, level and parent
\* sequences are equal element by element: a tree built with builder pushes
\* and one built with push_with_level from the same triples are equal, and
\* the capacity handed to with_capacity has no part in it: new(r) equals
\* with_capacity(r, n) for every n.
C15_EqualityByTriples ==
    /\ tree_eq(this, other) <=> Triples(this) = Triples(other)
    /\ \A r \in Values, n \in 0..MaxCapacity :
           /\ tree_eq(new(r), with_capacity(r, n))
           /\ tree_eq(with_capacity(r, n), new(r))

C15_Witness ==
    /\ call.op = "push"
    /\ len = MaxEqLen
    /\ Len(other.data) = len
    /\ other.capacity # new(data[1]).capacity
    /\ tree_eq(this, other)

C17_PushWithLevelAppends ==
    [][call'.op = "push_with_level" =>
          /\ ~panicked'
          /\ data' = Append(data, call'.d)
          /\ level' = Append(level, call'.l)
          /\ parent' = Append(parent, to_index(call'.p))
          /\ to_index(call'.ret) = Len(data)
          /\ to_index(call'.ret) = Len(data') - 1]_vars

C17_Witness ==
    /\ call.op = "push_with_level"
    /\ to_index(call.p) > len
    /\ call.l = MaxLevel
    /\ len = 3
    /\ Last(parent) = to_index(call.p)
    /\ Last(level) = call.l

\* from_index(n) has succeeded and to_index gives n back.
RoundTrip ==
    /\ ~panicked
    /\ call.ret # None
    /\ to_index(call.ret[1]) = call.n

\* to_index(id) is an index whose NodeId is id; equal and less on two NodeIds
\* are equal and less on their indices.
IndexOrder ==
    /\ call.op = "to_index" =>
           call.ret \in 0..(usize_MAX - 1) /\ from_index(call.ret) = call.id
    /\ call.op = "cmp" =>
           /\ call.eq <=> call.a = call.b
           /\ call.lt <=> call.a < call.b

\* C18 as stated: the node handle is bijective with the zero-based index: for
\* every index n that a machine word holds, from_index(n) succeeds and
\* to_index(from_index(n)) = n, and two handles compare equal / less exactly
\* when their indices do.
C18_BijectiveOnEveryWord ==
    /\ call.op = "from_index" => RoundTrip
    /\ IndexOrder

\* C18, amended: the same for every index n below the largest machine word;
\* from_index(usize::MAX) panics.
C18_BijectiveBelowMax ==
    /\ call.op = "from_index" =>
           IF call.n < usize_MAX THEN RoundTrip ELSE panicked
    /\ IndexOrder

C18_Witness ==
    /\ call.op = "from_index"
    /\ call.n = usize_MAX - 1
    /\ call.ret = Some(usize_MAX)
    /\ ~panicked

C20_PopReturnsLast ==
    [][call'.op = "pop" =>
          /\ ~panicked'
          /\ IF len = 0
             THEN /\ call'.ret = None
                  /\ UNCHANGED <<data, level, parent>>
             ELSE /\ call'.ret = Some(<<Last(data), Last(level),
                                        from_index(Last(parent))>>)
                  /\ data' = Take(data, Len(data) - 1)
                  /\ level' = Take(level, Len(level) - 1)
                  /\ parent' = Take(parent, Len(parent) - 1)
          /\ call.op = "push_with_level" =>
                 /\ call'.ret = Some(<<call.d, call.l, call.p>>)
                 /\ Len(data') = call.len
                 /\ Len(level') = call.len
                 /\ Len(parent') = call.len]_vars

C20_Witness ==
    /\ call.op = "pop"
    /\ call.ret = Some(<<"b", MaxLevel, from_index(2)>>)
    /\ len = 2
    /\ Len(level) = 2
    /\ Len(parent) = 2

\* C21: truncate(k) keeps exactly the first min(k, len()) entries of the
\* value, level and parent sequences, unchanged and in order, and drops the
\* rest; when k >= len() it has no effect on the tree.
C21_TruncateKeepsPrefix ==
    [][call'.op = "truncate" =>
          LET k == call'.n
              m == IF k < len THEN k ELSE len
          IN  /\ ~panicked'
              /\ Len(data') = m /\ Len(level') = m /\ Len(parent') = m
              /\ \A i \in 1..m :
                     /\ data'[i] = data[i]
                     /\ level'[i] = level[i]
                     /\ parent'[i] = parent[i]
              /\ k >= len => UNCHANGED <<data, level, parent>>]_vars

C21_Witness ==
    /\ call.op = "truncate"
    /\ call.n = 2
    /\ removed = 1
    /\ len = 2
    /\ At(level, 1) > 0

\* C22: after any interleaving of push, push_with_level, pop, truncate, clear
\* and drain (its iterator consumed, partly consumed and dropped, or dropped
\* unconsumed) the value, level and parent sequences have one length, and
\* entry i of each still describes the same node: over every step the
\* (value, level, parent) triples are the ones of before, whole and in order,
\* less a range of them or plus one at the end.
C22_SequencesAligned ==
    [][\/ UNCHANGED <<data, level, parent>>
       \/ /\ Len(data') = Len(level')
          /\ Len(level') = Len(parent')
          /\ LET n == Len(data)
                 m == Len(data')
                 Same(i, j) == /\ data'[i] = data[j]
                               /\ level'[i] = level[j]
                               /\ parent'[i] = parent[j]
             IN  IF m > n
                 THEN m = n + 1 /\ \A i \in 1..n : Same(i, i)
                 ELSE \E a \in 0..m :
                          /\ \A i \in 1..a : Same(i, i)
                          /\ \A i \in (a + 1)..m : Same(i, i + (n - m))]_vars

C22_Witness ==
    /\ call.op = "drain"
    /\ call.n = 2
    /\ call.taken = 1
    /\ removed = 2
    /\ len = 2
    /\ At(level, 1) = 1
    /\ At(data, 1) # At(data, 0)

\* C23: after drain(range) of any range on a builder-built tree, the tree
\* that remains is still well formed: index 0 records parent 0 and level 0,
\* every index i > 0 records a parent index < i, and so the walk up the
\* parents from every remaining node ends at index 0 without reading past the
\* end of the vectors.
C23_DrainKeepsWellFormed ==
    removed > 0 =>
        /\ len > 0 => At(level, 0) = 0 /\ At(parent, 0) = 0
        /\ \A i \in 1..(len - 1) : At(parent, i) < i
        /\ ~panicked
        /\ it.kind = "ParentIter" =>
               /\ Len(Yielded) < len
               /\ Decreasing(Ids(Yielded))

\* C24: on every tree reached through the public API, push_with_level with
\* any level and parent handle included, and from every node that node(id)
\* gives, stepping any of the four iterators any number of times never reads
\* an index >= len() of the value, level or parent vector: it never faults.
C24_IteratorsNeverFault == it # NoIter => ~panicked

\* Node::level: the entry of the level vector at the node's index.
Node_level(id) == At(level, to_index(id))

\* C25: in every state reached through the public API, get_level(id) of a
\* valid id is the entry of the level vector at the index of id, the value
\* Node::level returns: answering 0 for index 0 without reading the vector
\* never changes the result; and the level the builder gives a pushed child
\* is the stored level of its parent plus 1.
C25_GetLevelIsStoredLevel ==
    /\ \A i \in Nodes : get_level(from_index(i)) = Node_level(from_index(i))
    /\ call.op = "push" =>
           At(level, call.len) = At(level, At(parent, call.len)) + 1

====
